---- MODULE Spec2Model ----
(***************************************************************************)
(* Model of the flash-loan arbitrage program (arbitrage_contract.rs) and   *)
(* of the off-chain opportunity monitor (main.rs).                         *)
(*                                                                         *)
(* Amounts and prices are Rust u64 values.  TLC's integers are 32 bits     *)
(* wide, so a u64 is held as a little-endian sequence of limbs in radix    *)
(* Base with no leading zero limb (zero is the empty sequence); sums and   *)
(* products are computed exactly and compared with U64_MAX, which is what  *)
(* checked_add / checked_mul / checked_sub / checked_div do.               *)
(***************************************************************************)
EXTENDS Integers, Sequences, FiniteSets, TLC

\* ------------------------------------------------------------------------
\* Exact natural-number arithmetic on limb sequences
\* ------------------------------------------------------------------------

Base == 10 ^ 4

Tl(a) == IF a = <<>> THEN <<>> ELSE Tail(a)

Limb0(a) == IF a = <<>> THEN 0 ELSE a[1]

RECURSIVE Nat64(_)
\* the limb sequence of a small non-negative integer literal
Nat64(n) == IF n = 0 THEN <<>> ELSE <<n % Base>> \o Nat64(n \div Base)

RECURSIVE Norm(_)
Norm(a) ==
    IF a = <<>> THEN <<>>
    ELSE IF a[Len(a)] = 0 THEN Norm(SubSeq(a, 1, Len(a) - 1))
    ELSE a

RECURSIVE AddC(_, _, _)
AddC(a, b, c) ==
    IF a = <<>> /\ b = <<>>
    THEN (IF c = 0 THEN <<>> ELSE <<c>>)
    ELSE LET s == Limb0(a) + Limb0(b) + c
         IN  <<s % Base>> \o AddC(Tl(a), Tl(b), s \div Base)

Add(a, b) == AddC(a, b, 0)

RECURSIVE SubB(_, _, _)
\* a - b - borrow, for a >= b + borrow (limbs not yet normalised)
SubB(a, b, w) ==
    IF a = <<>> THEN <<>>
    ELSE LET d == Limb0(a) - Limb0(b) - w
         IN  IF d < 0
             THEN <<d + Base>> \o SubB(Tl(a), Tl(b), 1)
             ELSE <<d>> \o SubB(Tl(a), Tl(b), 0)

RECURSIVE LessFrom(_, _, _)
\* a < b for sequences of equal length, comparing from limb i downwards
LessFrom(a, b, i) ==
    IF i = 0 THEN FALSE
    ELSE IF a[i] # b[i] THEN a[i] < b[i]
    ELSE LessFrom(a, b, i - 1)

Less(a, b) ==
    IF Len(a) # Len(b) THEN Len(a) < Len(b) ELSE LessFrom(a, b, Len(a))

Leq(a, b) == ~Less(b, a)

Sub(a, b) == Norm(SubB(a, b, 0))

RECURSIVE MulSmall(_, _, _)
\* a * d + c for a single limb d
MulSmall(a, d, c) ==
    IF a = <<>>
    THEN (IF c = 0 THEN <<>> ELSE <<c>>)
    ELSE LET p == a[1] * d + c
         IN  <<p % Base>> \o MulSmall(Tail(a), d, p \div Base)

ShiftLimb(a) == IF a = <<>> THEN <<>> ELSE <<0>> \o a

RECURSIVE Mul(_, _)
Mul(a, b) ==
    IF a = <<>> \/ b = <<>> THEN <<>>
    ELSE Add(Norm(MulSmall(a, b[1], 0)), ShiftLimb(Mul(a, Tail(b))))

RECURSIVE Digit(_, _, _, _)
\* the largest d in lo..hi-1 with d * b <= r, given lo * b <= r < hi * b
Digit(r, b, lo, hi) ==
    IF hi - lo <= 1 THEN lo
    ELSE LET mid == (lo + hi) \div 2
         IN  IF Leq(Norm(MulSmall(b, mid, 0)), r)
             THEN Digit(r, b, mid, hi)
             ELSE Digit(r, b, lo, mid)

RECURSIVE DivMod(_, _)
\* <<floor(a / b), a mod b>> for b > 0: schoolbook long division, one limb
\* of the quotient per level
DivMod(a, b) ==
    IF Less(a, b) THEN <<(<<>>), a>>
    ELSE LET h == DivMod(a, ShiftLimb(b))
             d == Digit(h[2], b, 0, Base)
         IN  <<Norm(<<d>> \o h[1]), Sub(h[2], Norm(MulSmall(b, d, 0)))>>

Div(a, b) == DivMod(a, b)[1]

Mod(a, b) == DivMod(a, b)[2]

RECURSIVE Pow2(_)
Pow2(n) ==
    IF n = 0 THEN <<1>>
    ELSE LET h == Pow2(n \div 2)
             s == Mul(h, h)
         IN  IF n % 2 = 1 THEN Add(s, s) ELSE s

Max(a, b) == IF Less(a, b) THEN b ELSE a

Min(a, b) == IF Less(a, b) THEN a ELSE b

\* ------------------------------------------------------------------------
\* u64 and its checked operations
\* ------------------------------------------------------------------------

U64_BITS == 64

TWO_64 == Pow2(U64_BITS)

U64_MAX == Sub(TWO_64, <<1>>)

IsU64(a) == Leq(a, U64_MAX)

None == [some |-> FALSE, v |-> <<>>]

Some(x) == [some |-> TRUE, v |-> x]

checked_mul(a, b) == LET p == Mul(a, b) IN IF IsU64(p) THEN Some(p) ELSE None

checked_add(a, b) == LET s == Add(a, b) IN IF IsU64(s) THEN Some(s) ELSE None

checked_sub(a, b) == IF Less(a, b) THEN None ELSE Some(Sub(a, b))

checked_div(a, b) == IF b = <<>> THEN None ELSE Some(Div(a, b))

unwrap_or(o, d) == IF o.some THEN o.v ELSE d

\* ------------------------------------------------------------------------
\* Results, errors and program constants
\* ------------------------------------------------------------------------

Ok(x) == [ok |-> TRUE, val |-> x, err |-> "none"]

Err(e) == [ok |-> FALSE, val |-> <<>>, err |-> e]

\* PRICE_PRECISION is used by both price routines but defined nowhere in the
\* sources; the value is the one the design document's scenario gives
PRICE_PRECISION == Nat64(10 ^ 6)

FEE_NUMERATOR == 25

FEE_DENOMINATOR == 10000

MANGO_FEE_BPS == 20

JUPITER_FEE_BPS == 30

RAYDIUM_FEE_BPS == 25

JUPITER_CONVERSION_BPS == 60

BPS_DENOMINATOR == 10000

GAS_COST_LAMPORTS == 10000000

\* ------------------------------------------------------------------------
\* Price routines (arbitrage_contract.rs, get_jupiter_price / get_raydium_price)
\* ------------------------------------------------------------------------

\* o.checked_mul(m)? and o.checked_div(d)? on an Option o that is None once
\* an earlier `?` has returned
and_then_mul(o, m) == IF o.some THEN checked_mul(o.v, m) ELSE None

and_then_div(o, d) == IF o.some THEN checked_div(o.v, d) ELSE None

\* the division done before the multiplication
mul_div_reordered(o, m, d) == and_then_mul(and_then_div(o, d), m)

\* x.checked_mul(m).ok_or(CalculationError)?.checked_div(d).ok_or(CalculationError)?
mul_div(o, m, d) == and_then_div(and_then_mul(o, m), d)

\* lines 133-137: output_amount.checked_mul(PRICE_PRECISION)?.checked_div(amount)?
price_result(price) == IF price.some THEN Ok(price.v) ELSE Err("CalculationError")

jupiter_price_of(output_amount, amount) ==
    price_result(mul_div(Some(output_amount), PRICE_PRECISION, amount))

\* quote is the Result of jupiter_core::quote (its out_amount, or its error)
get_jupiter_price(quote, amount) ==
    IF quote.ok THEN jupiter_price_of(quote.val, amount) ELSE quote

\* lines 160-190: the locals of the constant-product quote, each an Option
\* that is None from the first failed checked operation on (the `?` returns)
NoQuote ==
    [k |-> None, new_reserve_a |-> None, new_reserve_b |-> None, output_amount |-> None,
     output_after_fees |-> None, price |-> None]

\* lines 160-162
quote_k(reserve_a, reserve_b) ==
    [NoQuote EXCEPT !.k = checked_mul(reserve_a, reserve_b)]

\* lines 164-166
quote_new_reserve_a(q, reserve_a, amount) ==
    [q EXCEPT !.new_reserve_a =
        IF q.k.some THEN checked_add(reserve_a, amount) ELSE None]

\* k / new_reserve_a rounded up instead of down
quote_new_reserve_b_rounded_up(q) ==
    [q EXCEPT !.new_reserve_b =
        IF q.new_reserve_a.some /\ q.new_reserve_a.v # <<>>
        THEN Some(Div(Add(q.k.v, Sub(q.new_reserve_a.v, <<1>>)), q.new_reserve_a.v))
        ELSE None]

\* lines 168-170
quote_new_reserve_b(q) ==
    [q EXCEPT !.new_reserve_b =
        IF q.new_reserve_a.some THEN checked_div(q.k.v, q.new_reserve_a.v) ELSE None]

\* the subtraction turned round
quote_output_amount_reversed(q, reserve_b) ==
    [q EXCEPT !.output_amount =
        IF q.new_reserve_b.some THEN checked_sub(q.new_reserve_b.v, reserve_b) ELSE None]

\* lines 172-174
quote_output_amount(q, reserve_b) ==
    [q EXCEPT !.output_amount =
        IF q.new_reserve_b.some THEN checked_sub(reserve_b, q.new_reserve_b.v) ELSE None]

\* the fee itself kept instead of the amount net of the fee
quote_output_after_fees_fee_only(q) ==
    [q EXCEPT !.output_after_fees =
        mul_div(q.output_amount, Nat64(FEE_NUMERATOR), Nat64(FEE_DENOMINATOR))]

\* lines 177-183
quote_output_after_fees(q) ==
    [q EXCEPT !.output_after_fees =
        mul_div(q.output_amount, Nat64(FEE_DENOMINATOR - FEE_NUMERATOR),
                Nat64(FEE_DENOMINATOR))]

\* lines 186-190
quote_price(q, amount) ==
    [q EXCEPT !.price = mul_div(q.output_after_fees, PRICE_PRECISION, amount)]

raydium_quote(reserve_a, reserve_b, amount) ==
    quote_price(
        quote_output_after_fees(
            quote_output_amount(
                quote_new_reserve_b(
                    quote_new_reserve_a(quote_k(reserve_a, reserve_b), reserve_a, amount)),
                reserve_b)),
        amount)

quote_result(q) == IF q.price.some THEN Ok(q.price.v) ELSE Err("CalculationError")

raydium_price_of(reserve_a, reserve_b, amount) ==
    quote_result(raydium_quote(reserve_a, reserve_b, amount))

\* pool is the Result of AmmInfo::load (its two reserves, or its error)
get_raydium_price(pool, amount) ==
    IF pool.ok THEN raydium_price_of(pool.val[1], pool.val[2], amount) ELSE pool

\* ------------------------------------------------------------------------
\* Fee model and profitability decision (arbitrage_contract.rs, lines 195-240
\* and 399-406)
\* ------------------------------------------------------------------------

\* the remainder of the division kept instead of the quotient
fee_term_remainder(amount, bps) ==
    unwrap_or(IF checked_mul(amount, Nat64(bps)).some
              THEN Some(Mod(Mul(amount, Nat64(bps)), Nat64(BPS_DENOMINATOR)))
              ELSE None,
              <<>>)

\* an overflowing product used wrapped instead of replaced by 0
fee_term_wrapping(amount, bps) ==
    Div(Mod(Mul(amount, Nat64(bps)), TWO_64), Nat64(BPS_DENOMINATOR))

\* amount.checked_mul(bps).unwrap_or(0).checked_div(10000).unwrap_or(0)
fee_term(amount, bps) ==
    unwrap_or(checked_div(unwrap_or(checked_mul(amount, Nat64(bps)), <<>>),
                          Nat64(BPS_DENOMINATOR)),
              <<>>)

calculate_mango_fee(amount) == fee_term(amount, MANGO_FEE_BPS)

calculate_dex_fees(amount) ==
    LET jupiter_fee == fee_term(amount, JUPITER_FEE_BPS)
        raydium_fee == fee_term(amount, RAYDIUM_FEE_BPS)
    IN  unwrap_or(checked_add(jupiter_fee, raydium_fee), <<>>)

calculate_jupiter_conversion_fees(amount) == fee_term(amount, JUPITER_CONVERSION_BPS)

estimate_gas_cost == Nat64(GAS_COST_LAMPORTS)

\* A plain `*` or `+` on u64.  What an overflow does is fixed by the build:
\* with overflow checks the operation panics, without them it wraps.
unchecked(exact, overflow_checks) ==
    IF IsU64(exact) THEN [panic |-> FALSE, v |-> exact]
    ELSE IF overflow_checks THEN [panic |-> TRUE, v |-> <<>>]
    ELSE [panic |-> FALSE, v |-> Mod(exact, TWO_64)]

unchecked_mul(a, b, overflow_checks) == unchecked(Mul(a, b), overflow_checks)

unchecked_add(a, b, overflow_checks) == unchecked(Add(a, b), overflow_checks)

\* s + b for a running sum s that may already have panicked
then_add(s, b, overflow_checks) ==
    IF s.panic THEN s ELSE unchecked_add(s.v, b, overflow_checks)

\* line 203: mango_fee + dex_fees + jupiter_conversion_fees + gas_cost
cost_sum(amount, overflow_checks) ==
    then_add(then_add(unchecked_add(calculate_mango_fee(amount),
                                    calculate_dex_fees(amount), overflow_checks),
                      calculate_jupiter_conversion_fees(amount), overflow_checks),
             estimate_gas_cost, overflow_checks)

\* line 202: (price_a.max(price_b) - price_a.min(price_b)) * amount
potential_profit_of(price_a, price_b, amount, overflow_checks) ==
    unchecked_mul(Sub(Max(price_a, price_b), Min(price_a, price_b)), amount,
                  overflow_checks)

\* line 203: the comparison that decides
decides(potential_profit, cost) == Less(cost, potential_profit)

\* the locals and the return value of is_profitable; panic when the build
\* checks overflow and one of its plain operations overflows
decision(potential_profit, cost) ==
    [panic |-> potential_profit.panic \/ cost.panic,
     err |-> IF potential_profit.panic \/ cost.panic THEN "panic" ELSE "none",
     potential_profit |-> potential_profit.v,
     cost |-> cost.v,
     result |-> /\ ~potential_profit.panic
                /\ ~cost.panic
                /\ decides(potential_profit.v, cost.v)]

is_profitable(price_a, price_b, amount, overflow_checks) ==
    decision(potential_profit_of(price_a, price_b, amount, overflow_checks),
             cost_sum(amount, overflow_checks))

\* ------------------------------------------------------------------------
\* State
\* ------------------------------------------------------------------------

VARIABLES
    pc,        \* try_arbitrage: the step about to run, "committed" or "reverted"
    inp,       \* try_arbitrage: what the instruction and the venues supply
    loc,       \* try_arbitrage: its locals
    bal,       \* balances of the four token accounts of TryArbitrage
    pre,       \* the balances when the transaction began
    steps,     \* the steps performed so far, in order, each with its outcome
    outcome,   \* "running", "Ok" or "Err", and the error
    call,      \* pure-function harness: the function applied and its arguments
    ret,       \* pure-function harness: what it returned
    returned,  \* pure-function harness: whether it has been applied
    mon,       \* monitor_opportunities: tick, index in token_pairs, position
    inflight,  \* per watch-list entry: executions sent and not yet confirmed
    triggers   \* monitor: the executions triggered so far, <<tick, index>>

txvars == <<pc, inp, loc, bal, pre, steps, outcome>>

fnvars == <<call, ret, returned>>

monvars == <<mon, inflight, triggers>>

vars == <<pc, inp, loc, bal, pre, steps, outcome, call, ret, returned, mon, inflight,
          triggers>>

\* ------------------------------------------------------------------------
\* try_arbitrage as a sequence of steps inside one ledger transaction
\* ------------------------------------------------------------------------

Accounts == {"token_a_account", "token_b_account", "mango_account", "profit_destination"}

NoLocals ==
    [jupiter_price |-> <<>>, raydium_price |-> <<>>, borrowed_funds |-> <<>>,
     initial_token_amount |-> <<>>, profit_in_token |-> <<>>, repay_amount |-> <<>>,
     first_venue |-> "none", second_venue |-> "none", profitable |-> "unknown"]

Running == [status |-> "running", err |-> "none"]

Terminal == {"committed", "reverted"}

\* a call whose error is dropped instead of returned
question_mark_dropped(r, next) == next

\* the `?` after a call: carry on when it returned Ok, leave with its error
\* otherwise
question_mark(r, next) == IF r.ok THEN next ELSE "reverted"

\* the host ledger: a transaction that ends in an error leaves every account
\* as it was when the transaction began
ledger_after(next, working, before) == IF next = "reverted" THEN before ELSE working

outcome_after(next, r) ==
    IF next = "reverted" THEN [status |-> "Err", err |-> r.err]
    ELSE IF next = "committed" THEN [status |-> "Ok", err |-> "none"]
    ELSE Running

SwapOps == {"swap_sol_to_token", "first_hop", "second_hop", "swap_token_to_sol"}

\* an entry of the log: the call, the amount passed to it, whether it returned
\* Ok and, for a swap, the output the venue realized (None when the venue
\* never got as far as an output)
Entry(op, venue, amount, r) ==
    [op |-> op, venue |-> venue, amount |-> amount, ok |-> r.ok,
     out |-> IF op \in SwapOps THEN r.out ELSE None]

\* token::transfer of the SPL token program: fails on insufficient funds
token_transfer(b, from, to, amount) ==
    IF Less(b[from], amount) THEN Err("InsufficientFunds")
    ELSE LET credited == checked_add(b[to], amount)
         IN  IF credited.some
             THEN Ok([b EXCEPT ![from] = Sub(b[from], amount), ![to] = credited.v])
             ELSE Err("Overflow")

\* what a venue's swap does to the accounts: takes amount_in of the input
\* mint, gives amount_out of the output mint ("sol" is held outside the four
\* token accounts)
swap_effect(b, from, to, amount_in, amount_out) ==
    IF from # "sol" /\ Less(b[from], amount_in) THEN Err("InsufficientFunds")
    ELSE LET debited == IF from = "sol" THEN b
                        ELSE [b EXCEPT ![from] = Sub(b[from], amount_in)]
             credited == IF to = "sol" THEN Some(<<>>)
                         ELSE checked_add(debited[to], amount_out)
         IN  IF ~credited.some THEN Err("Overflow")
             ELSE IF to = "sol" THEN Ok(debited)
             ELSE Ok([debited EXCEPT ![to] = credited.v])

RECURSIVE Pow10(_)
Pow10(n) == IF n = 0 THEN <<1>> ELSE Norm(MulSmall(Pow10(n - 1), 10, 0))

\* d * 10^e
Dec(d, e) == Mul(Nat64(d), Pow10(e))

\* --- what the instruction data, the venues and the build supply -----------

TxAmounts == {<<>>, Dec(1, 4), Dec(1, 18)}

Quotes ==
    {Err("QuoteError")}
        \cup {Ok(o) : o \in {Nat64(19000), Nat64(19760), Nat64(20000), Dec(2, 12),
                             Dec(1, 18)}}

Pools == {Err("PoolLoadError"), Ok(<<Dec(1, 6), Dec(2, 6)>>), Ok(<<(<<1>>), (<<1>>)>>)}

Profits == {<<>>, <<5>>}

SwapOuts == {Nat64(9000), Nat64(10100), Dec(3, 4)}

InitialBalances ==
    {[a \in Accounts |-> <<>>],
     [a \in Accounts |-> IF a = "token_a_account" THEN Dec(2, 18)
                         ELSE IF a = "token_b_account" THEN Dec(1, 5) ELSE <<>>]}

\* what a swap through a venue can answer: an output amount or an error
\* (the error is the venue program's own, not one of this program's ErrorCode)
VenueAnswers == {Err("VenueError")} \cup {Ok(o) : o \in SwapOuts}

\* --- the venues' swap instructions ----------------------------------------

\* a swap result: Ok with the amount received and the balances after it
SwapOk(out, b) == [ok |-> TRUE, val |-> out, err |-> "none", bal |-> b, out |-> Some(out)]

SwapErr(e, b) == [ok |-> FALSE, val |-> <<>>, err |-> e, bal |-> b, out |-> None]

\* the venue refuses an output it has realized: the CPI fails with the
\* venue's error
SwapRejected(out, b) == [SwapErr("VenueError", b) EXCEPT !.out = Some(out)]

cpi_swap(b, from, to, amount_in, answer) ==
    IF ~answer.ok THEN SwapErr(answer.err, b)
    ELSE LET moved == swap_effect(b, from, to, amount_in, answer.val)
         IN  IF moved.ok THEN SwapOk(answer.val, moved.val) ELSE SwapErr(moved.err, b)

SLIPPAGE_NUMERATOR == 995

SLIPPAGE_DENOMINATOR == 1000

\* lines 266-291: the Jupiter swap CPI; the slippage bound (300 bps) is
\* enforced by the venue against its own quote
swap_on_jupiter(b, from, to, amount, answer) == cpi_swap(b, from, to, amount, answer)

\* lines 306-314: minimum_amount_out = amount * 995 / 1000, checked
minimum_amount_out(amount) ==
    LET m == checked_mul(amount, Nat64(SLIPPAGE_NUMERATOR))
    IN  IF m.some THEN checked_div(m.v, Nat64(SLIPPAGE_DENOMINATOR)) ELSE None

\* lines 293-333: the Raydium swap CPI; the venue rejects an output below
\* minimum_amount_out
swap_on_raydium(b, from, to, amount, answer) ==
    LET bound == minimum_amount_out(amount)
    IN  IF ~bound.some THEN SwapErr("CalculationError", b)
        ELSE IF answer.ok /\ Less(answer.val, bound.v) THEN SwapRejected(answer.val, b)
        ELSE cpi_swap(b, from, to, amount, answer)

swap_on(venue, b, from, to, amount, answer) ==
    IF venue = "raydium" THEN swap_on_raydium(b, from, to, amount, answer)
    ELSE swap_on_jupiter(b, from, to, amount, answer)

\* the comparison of line 75 turned round
first_venue_swapped(jupiter_price, raydium_price) ==
    IF Less(jupiter_price, raydium_price) THEN "raydium" ELSE "jupiter"

\* lines 75-81: the venue of each arbitrage hop
first_venue(jupiter_price, raydium_price) ==
    IF Less(raydium_price, jupiter_price) THEN "raydium" ELSE "jupiter"

second_venue(jupiter_price, raydium_price) ==
    IF Less(raydium_price, jupiter_price) THEN "jupiter" ELSE "raydium"

\* --- the steps -------------------------------------------------------------

TxInit ==
    /\ pc = "get_jupiter_price"
    /\ inp \in [amount : TxAmounts, quote : Quotes, pool : Pools, profit : Profits,
                overflow_checks : BOOLEAN]
    /\ loc = NoLocals
    /\ bal \in InitialBalances
    /\ pre = bal
    /\ steps = <<>>
    /\ outcome = Running

\* one step: its result r, where a success leads, the balances and locals it
\* leaves, and its entry in the log
Advance(r, next, working, locals, entry) ==
    LET to == question_mark(r, next)
    IN  /\ pc' = to
        /\ bal' = ledger_after(to, working, pre)
        /\ outcome' = outcome_after(to, r)
        /\ loc' = locals
        /\ steps' = Append(steps, entry)
        /\ UNCHANGED <<inp, pre>>

\* a panic ends the transaction in an error, like a returned Err
Panic(entry) ==
    /\ pc' = "reverted"
    /\ bal' = ledger_after("reverted", bal, pre)
    /\ outcome' = [status |-> "Err", err |-> "panic"]
    /\ steps' = Append(steps, entry)
    /\ UNCHANGED <<inp, pre, loc>>

\* line 59
GetJupiterPrice ==
    /\ pc = "get_jupiter_price"
    /\ LET r == get_jupiter_price(inp.quote, inp.amount)
       IN  Advance(r, "get_raydium_price", bal, [loc EXCEPT !.jupiter_price = r.val],
                   Entry("get_jupiter_price", "jupiter", inp.amount, r))
    /\ UNCHANGED <<fnvars, monvars>>

\* line 60
GetRaydiumPrice ==
    /\ pc = "get_raydium_price"
    /\ LET r == get_raydium_price(inp.pool, inp.amount)
       IN  Advance(r, "is_profitable", bal, [loc EXCEPT !.raydium_price = r.val],
                   Entry("get_raydium_price", "raydium", inp.amount, r))
    /\ UNCHANGED <<fnvars, monvars>>

\* the flash loan run whatever the decision
after_decision_ignored(result) == "borrow"

\* lines 63 and 92: the flash loan runs only inside the `if`
after_decision(result) == IF result THEN "borrow" ELSE "profit_transfer"

\* line 63
IsProfitable ==
    /\ pc = "is_profitable"
    /\ LET d == is_profitable(loc.jupiter_price, loc.raydium_price, inp.amount,
                              inp.overflow_checks)
       IN  IF d.panic
           THEN Panic(Entry("is_profitable", "none", inp.amount, Err("panic")))
           ELSE /\ pc' = after_decision(d.result)
                /\ loc' = [loc EXCEPT !.profitable = IF d.result THEN "yes" ELSE "no"]
                /\ steps' = Append(steps, Entry("is_profitable", "none", inp.amount,
                                                Ok(<<>>)))
                /\ UNCHANGED <<inp, bal, pre, outcome>>
    /\ UNCHANGED <<fnvars, monvars>>

\* line 248: let borrowed_funds = amount (nothing is requested from Mango)
Borrow ==
    /\ pc = "borrow"
    /\ pc' = "swap_sol_to_token"
    /\ loc' = [loc EXCEPT !.borrowed_funds = inp.amount]
    /\ steps' = Append(steps, Entry("borrow", "mango", inp.amount, Ok(<<>>)))
    /\ UNCHANGED <<inp, bal, pre, outcome, fnvars, monvars>>

\* lines 68-72
SwapSolToToken ==
    /\ pc = "swap_sol_to_token"
    /\ \E answer \in VenueAnswers :
         LET r == swap_on_jupiter(bal, "sol", "token_a_account", loc.borrowed_funds, answer)
         IN  Advance(r, "first_hop", r.bal, [loc EXCEPT !.initial_token_amount = r.val],
                     Entry("swap_sol_to_token", "jupiter", loc.borrowed_funds, r))
    /\ UNCHANGED <<fnvars, monvars>>

\* lines 76 and 79: token_a -> token_b with initial_token_amount
FirstHop ==
    /\ pc = "first_hop"
    /\ \E answer \in VenueAnswers :
         LET venue == first_venue(loc.jupiter_price, loc.raydium_price)
             r == swap_on(venue, bal, "token_a_account", "token_b_account",
                          loc.initial_token_amount, answer)
         IN  Advance(r, "second_hop", r.bal, [loc EXCEPT !.first_venue = venue],
                     Entry("first_hop", venue, loc.initial_token_amount, r))
    /\ UNCHANGED <<fnvars, monvars>>

\* lines 77 and 80: token_b -> token_a, again with initial_token_amount.  The
\* swap functions return Result<()>, so profit_in_token is not a value the
\* hop computes: any amount
SecondHop ==
    /\ pc = "second_hop"
    /\ \E answer \in VenueAnswers, unit \in SwapOuts :
         LET venue == second_venue(loc.jupiter_price, loc.raydium_price)
             r == swap_on(venue, bal, "token_b_account", "token_a_account",
                          loc.initial_token_amount, answer)
         IN  Advance(r, "swap_token_to_sol", r.bal,
                     [loc EXCEPT !.second_venue = venue,
                                 !.profit_in_token = IF r.ok THEN unit ELSE <<>>],
                     Entry("second_hop", venue, loc.initial_token_amount, r))
    /\ UNCHANGED <<fnvars, monvars>>

\* lines 84-88: the amount received is dropped
SwapTokenToSol ==
    /\ pc = "swap_token_to_sol"
    /\ \E answer \in VenueAnswers :
         LET r == swap_on_jupiter(bal, "token_a_account", "sol", loc.profit_in_token, answer)
         IN  Advance(r, "repay", r.bal, loc,
                     Entry("swap_token_to_sol", "jupiter", loc.profit_in_token, r))
    /\ UNCHANGED <<fnvars, monvars>>

\* line 253: amount + calculate_mango_fee(amount), a plain `+`
repay_amount_of(amount, overflow_checks) ==
    unchecked_add(amount, calculate_mango_fee(amount), overflow_checks)

\* lines 253-261
Repay ==
    /\ pc = "repay"
    /\ LET due == repay_amount_of(inp.amount, inp.overflow_checks)
       IN  IF due.panic
           THEN Panic(Entry("repay", "mango", <<>>, Err("panic")))
           ELSE \E accepted \in BOOLEAN :
                  LET r == IF accepted
                           THEN token_transfer(bal, "token_a_account", "mango_account",
                                               due.v)
                           ELSE Err("InvalidTokenAccount")
                  IN  Advance(r, "profit_transfer", IF r.ok THEN r.val ELSE bal,
                              [loc EXCEPT !.repay_amount = due.v],
                              Entry("repay", "mango", due.v, r))
    /\ UNCHANGED <<fnvars, monvars>>

\* the transfer made whatever the profit
transfers_profit_always(profit) == TRUE

\* line 95: if profit > 0
transfers_profit(profit) == profit # <<>>

\* lines 95-110: profit is read but never assigned in the source; it is an
\* input here
ProfitTransfer ==
    /\ pc = "profit_transfer"
    /\ IF transfers_profit(inp.profit)
       THEN \E accepted \in BOOLEAN :
              LET r == IF accepted
                       THEN token_transfer(bal, "token_a_account", "profit_destination",
                                           inp.profit)
                       ELSE Err("InvalidTokenAccount")
              IN  Advance(r, "committed", IF r.ok THEN r.val ELSE bal, loc,
                          Entry("profit_transfer", "token", inp.profit, r))
       ELSE /\ pc' = "committed"
            /\ outcome' = [status |-> "Ok", err |-> "none"]
            /\ UNCHANGED <<inp, loc, bal, pre, steps>>
    /\ UNCHANGED <<fnvars, monvars>>

TxNext ==
    \/ GetJupiterPrice
    \/ GetRaydiumPrice
    \/ IsProfitable
    \/ Borrow
    \/ SwapSolToToken
    \/ FirstHop
    \/ SecondHop
    \/ SwapTokenToSol
    \/ Repay
    \/ ProfitTransfer

\* monitor: the latest awaited call, where in the loop it was made and how
\* it came out
NoCall == [tick |-> 0, idx |-> 0, result |-> "none"]

\* the harness and the monitor at rest
FnIdle ==
    /\ call = [fn |-> "none", args |-> <<>>]
    /\ ret = Err("none")
    /\ returned = FALSE

MonIdle ==
    /\ mon = [tick |-> 0, idx |-> 0, at |-> "idle", token_pairs |-> <<>>,
              last |-> NoCall]
    /\ inflight = <<>>
    /\ triggers = <<>>

TxIdle ==
    /\ pc = "idle"
    /\ inp = [amount |-> <<>>, quote |-> Err("none"), pool |-> Err("none"),
              profit |-> <<>>, overflow_checks |-> FALSE]
    /\ loc = NoLocals
    /\ bal = [a \in Accounts |-> <<>>]
    /\ pre = bal
    /\ steps = <<>>
    /\ outcome = Running

Init == TxInit /\ FnIdle /\ MonIdle

Next == TxNext

Spec == Init /\ [][Next]_vars

\* ------------------------------------------------------------------------
\* The price routines and the profitability decision applied to sampled u64
\* arguments
\* ------------------------------------------------------------------------

MaxDigit == 3

MaxExp == 6

\* d * 10^(3e) for the sampled digits and exponents, and the largest u64
U64Samples ==
    {v \in {Dec(d, 3 * e) : d \in 0..MaxDigit, e \in 0..MaxExp} : IsU64(v)}
        \cup {U64_MAX}

\* the reserves and trade size of the design document's quote scenario
ScenarioQuote == <<Dec(1, 6), Dec(2, 6), Dec(1, 4)>>

PriceCalls ==
    {[fn |-> "get_jupiter_price", args |-> <<o, a>>] : o \in U64Samples, a \in U64Samples}
        \cup {[fn |-> "get_raydium_price", args |-> <<ra, rb, a>>] :
                 ra \in U64Samples, rb \in U64Samples, a \in U64Samples}
        \cup {[fn |-> "get_raydium_price", args |-> ScenarioQuote]}

NotReturned ==
    /\ ret = Err("none")
    /\ returned = FALSE

PriceInit == TxIdle /\ MonIdle /\ call \in PriceCalls /\ NotReturned

\* get_jupiter_price on a quote whose out_amount is args[1], for amount args[2]
CallGetJupiterPrice ==
    /\ call.fn = "get_jupiter_price"
    /\ ~returned
    /\ returned' = TRUE
    /\ ret' = [result |-> get_jupiter_price(Ok(call.args[1]), call.args[2]),
               q |-> NoQuote]
    /\ UNCHANGED <<call, txvars, monvars>>

\* get_raydium_price on a pool with reserves args[1], args[2], for amount
\* args[3]; q holds the locals of the call
CallGetRaydiumPrice ==
    /\ call.fn = "get_raydium_price"
    /\ ~returned
    /\ returned' = TRUE
    /\ ret' = [result |-> get_raydium_price(Ok(<<call.args[1], call.args[2]>>),
                                            call.args[3]),
               q |-> raydium_quote(call.args[1], call.args[2], call.args[3])]
    /\ UNCHANGED <<call, txvars, monvars>>

PriceNext == CallGetJupiterPrice \/ CallGetRaydiumPrice

SpecPrice == PriceInit /\ [][PriceNext]_vars

\* the samples and 2^32, whose square is the first product past u64
ProfitSamples == U64Samples \cup {Pow2(32)}

ProfitCalls ==
    {[fn |-> "is_profitable", args |-> <<pa, pb, a, oc>>] :
        pa \in ProfitSamples, pb \in ProfitSamples, a \in ProfitSamples, oc \in BOOLEAN}

ProfitInit == TxIdle /\ MonIdle /\ call \in ProfitCalls /\ NotReturned

\* is_profitable(args[1], args[2], args[3]) in a build with overflow checks
\* on (args[4]) or off
CallIsProfitable ==
    /\ call.fn = "is_profitable"
    /\ ~returned
    /\ returned' = TRUE
    /\ ret' = is_profitable(call.args[1], call.args[2], call.args[3], call.args[4])
    /\ UNCHANGED <<call, txvars, monvars>>

ProfitNext == CallIsProfitable

SpecProfit == ProfitInit /\ [][ProfitNext]_vars

\* ------------------------------------------------------------------------
\* The fee functions applied to two sampled amounts
\* ------------------------------------------------------------------------

FeeRates == {MANGO_FEE_BPS, RAYDIUM_FEE_BPS, JUPITER_FEE_BPS, JUPITER_CONVERSION_BPS}

\* the samples, and for each rate the largest amount whose product with the
\* rate fits in u64 and the amount after it
FeeSamples ==
    U64Samples
        \cup {Div(U64_MAX, Nat64(bps)) : bps \in FeeRates}
        \cup {Add(Div(U64_MAX, Nat64(bps)), <<1>>) : bps \in FeeRates}

FeeFns == {"calculate_mango_fee", "calculate_dex_fees", "calculate_jupiter_conversion_fees"}

FeeCalls ==
    {[fn |-> f, args |-> <<a, b>>] : f \in FeeFns, a \in FeeSamples, b \in FeeSamples}
        \cup {[fn |-> "cost_sum", args |-> <<a, b, oc>>] :
                 a \in FeeSamples, b \in FeeSamples, oc \in BOOLEAN}

FeeInit == TxIdle /\ MonIdle /\ call \in FeeCalls /\ NotReturned

\* the function applied to args[1] and to args[2]
CallCalculateMangoFee ==
    /\ call.fn = "calculate_mango_fee"
    /\ ~returned
    /\ returned' = TRUE
    /\ ret' = [a |-> calculate_mango_fee(call.args[1]),
               b |-> calculate_mango_fee(call.args[2]), panic |-> FALSE]
    /\ UNCHANGED <<call, txvars, monvars>>

CallCalculateDexFees ==
    /\ call.fn = "calculate_dex_fees"
    /\ ~returned
    /\ returned' = TRUE
    /\ ret' = [a |-> calculate_dex_fees(call.args[1]),
               b |-> calculate_dex_fees(call.args[2]), panic |-> FALSE]
    /\ UNCHANGED <<call, txvars, monvars>>

CallCalculateJupiterConversionFees ==
    /\ call.fn = "calculate_jupiter_conversion_fees"
    /\ ~returned
    /\ returned' = TRUE
    /\ ret' = [a |-> calculate_jupiter_conversion_fees(call.args[1]),
               b |-> calculate_jupiter_conversion_fees(call.args[2]), panic |-> FALSE]
    /\ UNCHANGED <<call, txvars, monvars>>

\* the total cost of line 203, in a build with overflow checks on (args[3])
\* or off
total_costs(cost_a, cost_b) ==
    [a |-> cost_a.v, b |-> cost_b.v, panic |-> cost_a.panic \/ cost_b.panic]

CallCostSum ==
    /\ call.fn = "cost_sum"
    /\ ~returned
    /\ returned' = TRUE
    /\ ret' = total_costs(cost_sum(call.args[1], call.args[3]),
                          cost_sum(call.args[2], call.args[3]))
    /\ UNCHANGED <<call, txvars, monvars>>

FeeNext ==
    \/ CallCalculateMangoFee
    \/ CallCalculateDexFees
    \/ CallCalculateJupiterConversionFees
    \/ CallCostSum

SpecFee == FeeInit /\ [][FeeNext]_vars

\* ------------------------------------------------------------------------
\* The amounts of a token pair, from add_token_pair to the two instructions
\* the monitor builds for it
\* ------------------------------------------------------------------------

BYTE == 256

U64_BYTES == 8

\* the count low bytes of n, least significant first
RECURSIVE le_bytes(_, _)
le_bytes(n, count) ==
    IF count = 0 THEN <<>>
    ELSE <<Limb0(Mod(n, Nat64(BYTE)))>> \o le_bytes(Div(n, Nat64(BYTE)), count - 1)

\* u64::to_le_bytes
to_le_bytes(n) == le_bytes(n, U64_BYTES)

\* lines 96-99 and 188-191: vec![0, amount.to_le_bytes().to_vec()].concat()
instruction_data(discriminator, amount) == <<discriminator>> \o to_le_bytes(amount)

NoPair == [amount_to_trade |-> <<>>, loan_amount |-> <<>>]

NoInstructions == [added |-> FALSE, pair |-> NoPair, check_data |-> <<>>, execute_data |-> <<>>]

PairCalls ==
    {[fn |-> "add_token_pair", args |-> <<amount, loan_amount>>] :
        amount \in U64Samples, loan_amount \in U64Samples}

PairInit ==
    /\ TxIdle
    /\ MonIdle
    /\ call \in PairCalls
    /\ ret = NoInstructions
    /\ returned = FALSE

\* lines 49-57: add_token_pair(token_a, token_b, amount, loan_amount)
AddTokenPair ==
    /\ ~ret.added
    /\ ret' = [ret EXCEPT !.added = TRUE,
                          !.pair = [amount_to_trade |-> call.args[1],
                                    loan_amount |-> call.args[2]]]
    /\ UNCHANGED <<call, returned, txvars, monvars>>

\* line 98: the amount the price-check instruction carries
check_amount(pair) == pair.amount_to_trade

\* lines 177 and 190: the amount the execution instruction carries
execute_amount(pair) == pair.loan_amount

\* lines 80-100: the instruction check_arbitrage_opportunity has simulated
BuildCheckInstruction ==
    /\ ret.added
    /\ ret.check_data = <<>>
    /\ ret' = [ret EXCEPT !.check_data = instruction_data(0, check_amount(ret.pair))]
    /\ UNCHANGED <<call, returned, txvars, monvars>>

\* lines 177-192: the instruction execute_arbitrage sends
BuildExecuteInstruction ==
    /\ ret.check_data # <<>>
    /\ ~returned
    /\ ret' = [ret EXCEPT !.execute_data = instruction_data(0, execute_amount(ret.pair))]
    /\ returned' = TRUE
    /\ UNCHANGED <<call, txvars, monvars>>

PairNext == AddTokenPair \/ BuildCheckInstruction \/ BuildExecuteInstruction

SpecNotional == PairInit /\ [][PairNext]_vars

\* ------------------------------------------------------------------------
\* The monitor's decision (main.rs, lines 124-139) next to is_profitable
\* ------------------------------------------------------------------------

\* min_profit_threshold: 0.5 and slippage_tolerance: 0.1, in tenths
MIN_PROFIT_THRESHOLD_TENTHS == 5

SLIPPAGE_TOLERANCE_TENTHS == 1

ESTIMATED_GAS_COST == 5000

\* the divisor 100.0 of lines 135 and 137
PERCENT == 100

\* the tenths of the two rates
TENTH == 10

\* the divisor 1e9 of lines 131 and 153
LAMPORTS_PER_SOL == Dec(1, 9)

\* lines 125-129
price_diff(jupiter_price, raydium_price) ==
    IF Less(raydium_price, jupiter_price) THEN Sub(jupiter_price, raydium_price)
    ELSE Sub(raydium_price, jupiter_price)

\* Both sides of the comparison of line 139 are rationals; they are kept
\* here multiplied by 1e9 * 100 * 10, which makes them integers.
\* line 131: price_diff * amount_to_trade / 1e9
scaled_potential_profit(diff, amount) ==
    Mul(Mul(diff, amount), Nat64(PERCENT * TENTH))

\* lines 153 and 135-137: amount * 0.5 / 100 + estimated_gas_cost * sol_price
\* / 1e9 + amount * 0.1 / 100
scaled_required_profit(amount, sol_price) ==
    Add(Add(Mul(Mul(amount, Nat64(MIN_PROFIT_THRESHOLD_TENTHS)), LAMPORTS_PER_SOL),
            Mul(Mul(Nat64(ESTIMATED_GAS_COST), sol_price), Nat64(PERCENT * TENTH))),
        Mul(Mul(amount, Nat64(SLIPPAGE_TOLERANCE_TENTHS)), LAMPORTS_PER_SOL))

\* The source computes in f64: each cast and operation rounds to 53 bits.
\* Two sides closer than one part in 10^12 may compare either way; a zero
\* is exact (a product with 0.0 is 0.0), and no side is negative.
ROUNDING_DIGITS == 12

WithinRounding(x, y) ==
    /\ x # <<>>
    /\ y # <<>>
    /\ Leq(Mul(Sub(Max(x, y), Min(x, y)), Dec(1, ROUNDING_DIGITS)), Max(x, y))

\* line 139: potential_profit > required_profit, as the set of the values the
\* comparison can have
compares_greater(potential, required) ==
    IF WithinRounding(potential, required) THEN BOOLEAN ELSE {Less(required, potential)}

\* lines 124-139
check_decisions(jupiter_price, raydium_price, amount, sol_price) ==
    compares_greater(
        scaled_potential_profit(price_diff(jupiter_price, raydium_price), amount),
        scaled_required_profit(amount, sol_price))

\* venue prices, amounts to trade and SOL prices in USD (the Pyth feed)
AgreePrices == {<<>>, Nat64(1975200), Dec(2, 6), Dec(8, 9), Dec(1, 12)}

AgreeAmounts == {<<>>, Dec(1, 4), Dec(5, 8), Dec(1, 18)}

SolPrices == {<<>>, Nat64(150)}

AgreeCalls ==
    {[fn |-> "decide", args |-> <<jp, rp, a, sp, oc>>] :
        jp \in AgreePrices, rp \in AgreePrices, a \in AgreeAmounts, sp \in SolPrices,
        oc \in BOOLEAN}

Undecided == [monitor |-> "none", onchain |-> "none"]

AgreeInit ==
    /\ TxIdle
    /\ MonIdle
    /\ call \in AgreeCalls
    /\ ret = Undecided
    /\ returned = FALSE

YesNo(b) == IF b THEN "yes" ELSE "no"

\* check_arbitrage_opportunity on return data holding the prices args[1] and
\* args[2], for a pair trading args[3], with SOL at args[4] USD
CallCheckDecision ==
    /\ call.fn = "decide"
    /\ ret.monitor = "none"
    /\ \E d \in check_decisions(call.args[1], call.args[2], call.args[3], call.args[4]) :
         ret' = [ret EXCEPT !.monitor = YesNo(d)]
    /\ UNCHANGED <<call, returned, txvars, monvars>>

onchain_answer(d) == IF d.panic THEN "panic" ELSE YesNo(d.result)

\* is_profitable on the same prices and amount, in a build with overflow
\* checks on (args[5]) or off
CallOnChainIsProfitable ==
    /\ call.fn = "decide"
    /\ ret.monitor # "none"
    /\ ~returned
    /\ ret' = [ret EXCEPT !.onchain =
                  onchain_answer(is_profitable(call.args[1], call.args[2], call.args[3],
                                               call.args[5]))]
    /\ returned' = TRUE
    /\ UNCHANGED <<call, txvars, monvars>>

AgreeNext == CallCheckDecision \/ CallOnChainIsProfitable

SpecAgree == AgreeInit /\ [][AgreeNext]_vars

\* ------------------------------------------------------------------------
\* The opportunity monitor (main.rs, monitor_opportunities)
\* ------------------------------------------------------------------------

MaxPairs == 2

MaxTicks == 2

PairIds == 1..MaxPairs

\* token_pairs after the calls of add_token_pair: any non-empty list of
\* pairs, a pair possibly added twice
Watchlists == UNION {[1..n -> PairIds] : n \in 1..MaxPairs}

\* what check_arbitrage_opportunity can come to: Ok(true), Ok(false), an Err
\* of the RPC or the simulation, the Err of line 141 when the simulation has
\* no return data, or a panic on slicing return data shorter than 16 bytes
CheckOutcomes == {"profitable", "not_profitable", "error", "no_data", "short_data"}

MonInit ==
    /\ TxIdle
    /\ FnIdle
    /\ \E w \in Watchlists :
         /\ mon = [tick |-> 1, idx |-> 1, at |-> "check", token_pairs |-> w,
                   last |-> NoCall]
         /\ inflight = [i \in 1..Len(w) |-> 0]
    /\ triggers = <<>>

\* the `for` of line 61 moving to the next pair, or to the sleep of line 72
next_pair(m) ==
    IF m.idx < Len(m.token_pairs)
    THEN [m EXCEPT !.idx = m.idx + 1, !.at = "check"]
    ELSE [m EXCEPT !.at = "sleep"]

\* the execution is not awaited: the loop goes on while it is in flight
after_send_detached(m) == next_pair(m)

\* lines 64 and 203: execute_arbitrage is awaited and send_and_confirm_transaction
\* blocks until the transaction is confirmed or has failed
after_send(m) == [m EXCEPT !.at = "await"]

\* the result of the call just awaited, made for the pair the loop is at
called(m, result) ==
    [m EXCEPT !.last = [tick |-> m.tick, idx |-> m.idx, result |-> result]]

\* an Ok carrying false treated like an Ok carrying true
after_check_any_ok(m, o) ==
    IF o \in {"profitable", "not_profitable"} THEN [m EXCEPT !.at = "send"]
    ELSE IF o = "short_data" THEN [m EXCEPT !.at = "crashed"]
    ELSE next_pair(m)

\* lines 62-63 and 119-122: `if let Ok(profitable)` then `if profitable`;
\* an Err falls through to the next pair; the slice of a short buffer panics
after_check(m, o) ==
    IF o = "profitable" THEN [m EXCEPT !.at = "send"]
    ELSE IF o = "short_data" THEN [m EXCEPT !.at = "crashed"]
    ELSE next_pair(m)

\* lines 62-63: check_arbitrage_opportunity(pair).await
MonCheck ==
    /\ mon.at = "check"
    /\ \E o \in CheckOutcomes : mon' = after_check(called(mon, o), o)
    /\ UNCHANGED <<inflight, triggers, txvars, fnvars>>

\* an Err of execute_arbitrage passed on instead of printed: the loop ends
after_execute_fatal(m, result) ==
    IF result = "confirmed" THEN next_pair(called(m, result))
    ELSE [called(m, result) EXCEPT !.at = "stopped"]

\* lines 64-68: both arms of the match print and fall through to the next
\* pair
after_execute(m, result) == next_pair(called(m, result))

\* lines 64 and 173-203: execute_arbitrage up to the sending of the
\* transaction (get_latest_blockhash can fail before anything is sent)
MonSend ==
    /\ mon.at = "send"
    /\ \E sent \in BOOLEAN :
         IF sent
         THEN /\ inflight' = [inflight EXCEPT ![mon.idx] = @ + 1]
              /\ triggers' = Append(triggers, <<mon.tick, mon.idx>>)
              /\ mon' = after_send(mon)
         ELSE /\ mon' = after_execute(mon, "send_error")
              /\ UNCHANGED <<inflight, triggers>>
    /\ UNCHANGED <<txvars, fnvars>>

\* lines 203-206 and 65-68: the transaction is confirmed or fails; either
\* way the loop goes on to the next pair
MonConfirm ==
    /\ \E i \in DOMAIN inflight, result \in {"confirmed", "failed"} :
         /\ inflight[i] > 0
         /\ inflight' = [inflight EXCEPT ![i] = @ - 1]
         /\ mon' = IF mon.at = "await" /\ mon.idx = i
                   THEN after_execute(mon, result)
                   ELSE mon
    /\ UNCHANGED <<triggers, txvars, fnvars>>

\* line 72, then the next turn of the loop of line 60
MonSleep ==
    /\ mon.at = "sleep"
    /\ mon.tick < MaxTicks
    /\ mon' = [mon EXCEPT !.tick = mon.tick + 1, !.idx = 1, !.at = "check"]
    /\ UNCHANGED <<inflight, triggers, txvars, fnvars>>

MonNext == MonCheck \/ MonSend \/ MonConfirm \/ MonSleep

SpecMonitor == MonInit /\ [][MonNext]_vars

\* every awaited call returns (the RPC client times out), so the loop always
\* takes its next step
SpecMonitorLive == MonInit /\ [][MonNext]_vars /\ WF_vars(MonNext)

\* ------------------------------------------------------------------------
\* Properties of try_arbitrage (checked under Spec)
\* ------------------------------------------------------------------------

StepIndex == 1..Len(steps)

SomeStepFailed == \E i \in StepIndex : ~steps[i].ok

LoanOps == {"borrow", "swap_sol_to_token", "first_hop", "second_hop",
            "swap_token_to_sol", "repay"}

\* C1: atomicity.  Once any step of an execution has failed the execution
\* is Reverted and every account balance is what it was before the
\* execution began; and an execution has ended (in Ok or Err) only when it
\* is committed or reverted, never in an intermediate state.
C1_Atomicity ==
    /\ SomeStepFailed => (pc = "reverted" /\ outcome.status = "Err")
    /\ pc = "reverted" => bal = pre
    /\ outcome.status = "Err" <=> pc = "reverted"
    /\ outcome.status = "Ok" <=> pc = "committed"

\* a late failure: the swaps and the repayment went through and moved
\* tokens, then the profit transfer failed
C1_Witness ==
    /\ pc = "reverted"
    /\ Len(steps) > 1
    /\ steps[Len(steps)].op = "profit_transfer"
    /\ ~steps[Len(steps)].ok
    /\ \E i \in StepIndex : steps[i].op = "repay" /\ steps[i].ok
    /\ bal = pre

\* C2: abort on re-verification.  When is_profitable, computed from the
\* prices read inside try_arbitrage, returns false, the execution performs
\* no borrow, no swap and no repayment.
C2_NoLoanWhenUnprofitable ==
    loc.profitable = "no" => \A i \in StepIndex : steps[i].op \notin LoanOps

C2_Witness ==
    /\ loc.profitable = "no"
    /\ pc = "committed"
    /\ \E i \in StepIndex : steps[i].op = "profit_transfer" /\ steps[i].ok

\* floor(amount * 20 / 10000), exactly
exact_loan_fee(amount) == Div(Mul(amount, Nat64(MANGO_FEE_BPS)), Nat64(BPS_DENOMINATOR))

\* C3: exact repayment.  Every repayment that goes through transfers
\* loan_amount + floor(loan_amount * 20 / 10000) to the loan venue.
C3_ExactRepayment ==
    \A i \in StepIndex :
        (steps[i].op = "repay" /\ steps[i].ok)
            => steps[i].amount = Add(inp.amount, exact_loan_fee(inp.amount))

PriceAt(venue) == IF venue = "jupiter" THEN loc.jupiter_price ELSE loc.raydium_price

OtherVenue(venue) == IF venue = "jupiter" THEN "raydium" ELSE "jupiter"

\* C5: direction.  The first arbitrage hop runs on the venue whose observed
\* price is lower and the second hop on the venue whose observed price is
\* higher.
C5_Direction ==
    \A i \in StepIndex :
        /\ steps[i].op = "first_hop"
             => Less(PriceAt(steps[i].venue), PriceAt(OtherVenue(steps[i].venue)))
        /\ steps[i].op = "second_hop"
             => Less(PriceAt(OtherVenue(steps[i].venue)), PriceAt(steps[i].venue))

\* both hops done, with Raydium the cheaper venue
C5_Witness ==
    /\ \E i \in StepIndex : steps[i].op = "second_hop" /\ steps[i].ok
    /\ loc.first_venue = "raydium"
    /\ loc.second_venue = "jupiter"
    /\ Less(loc.raydium_price, loc.jupiter_price)

\* both hops done, with Jupiter the cheaper venue
C5_WitnessJupiterFirst ==
    /\ \E i \in StepIndex : steps[i].op = "second_hop" /\ steps[i].ok
    /\ loc.first_venue = "jupiter"
    /\ Less(loc.jupiter_price, loc.raydium_price)

\* the place of each call in the source order of try_arbitrage
OpRank(op) ==
    CASE op = "get_jupiter_price" -> 1
      [] op = "get_raydium_price" -> 2
      [] op = "is_profitable" -> 3
      [] op = "borrow" -> 4
      [] op = "swap_sol_to_token" -> 5
      [] op = "first_hop" -> 6
      [] op = "second_hop" -> 7
      [] op = "swap_token_to_sol" -> 8
      [] op = "repay" -> 9
      [] op = "profit_transfer" -> 10

Performed(op) == \E i \in StepIndex : steps[i].op = op /\ steps[i].ok

\* C14: step ordering.  The steps occur only in the order borrow, conversion
\* into the trade asset, first hop, second hop, conversion back, repayment,
\* profit transfer; a step is performed only if every earlier step of the
\* execution succeeded (each step of the loan directly follows the one
\* before it), and a profit transfer happens only in an execution that
\* repaid the loan.
C14_StepOrdering ==
    /\ \A i \in StepIndex, j \in StepIndex :
         i < j => (OpRank(steps[i].op) < OpRank(steps[j].op) /\ steps[i].ok)
    /\ \A j \in StepIndex :
         OpRank(steps[j].op) \in 5..9
            => (j > 1 /\ OpRank(steps[j - 1].op) = OpRank(steps[j].op) - 1)
    /\ \A j \in StepIndex :
         steps[j].op = "profit_transfer" => Performed("repay")

C16_NonNegativeProfit ==
    pc = "committed"
        => \A i \in StepIndex, j \in StepIndex :
             (steps[i].op = "swap_token_to_sol" /\ steps[j].op = "repay")
                => Leq(steps[j].amount, steps[i].out.v)

\* C19: hop chaining.  The input amount of the second hop is the output the
\* first hop realized, and the amount converted back is the output the
\* second hop realized.
C19_HopChaining ==
    \A i \in StepIndex, j \in StepIndex :
        /\ (steps[i].op = "first_hop" /\ steps[i].ok /\ steps[j].op = "second_hop")
             => steps[j].amount = steps[i].out.v
        /\ (steps[i].op = "second_hop" /\ steps[i].ok /\ steps[j].op = "swap_token_to_sol")
             => steps[j].amount = steps[i].out.v

\* a swap whose realized output is below the minimum_amount_out it carried
BelowBound(step) ==
    /\ step.op \in SwapOps
    /\ step.venue = "raydium"
    /\ step.out.some
    /\ minimum_amount_out(step.amount).some
    /\ Less(step.out.v, minimum_amount_out(step.amount).v)

\* C20: slippage bound.  Whenever the realized output of a hop is below the
\* bound the hop carries, the execution aborts with SlippageExceeded and
\* ends in Reverted.
C20_SlippageBound ==
    \A i \in StepIndex :
        BelowBound(steps[i]) => (pc = "reverted" /\ outcome.err = "SlippageExceeded")

\* ------------------------------------------------------------------------
\* Properties of the price routines (checked under SpecPrice)
\* ------------------------------------------------------------------------

Applied(fn) == returned /\ call.fn = fn

\* what the claim gives for an output amount and an input amount
expected_price(output_amount, input_amount) ==
    IF input_amount = <<>> \/ ~IsU64(Mul(output_amount, PRICE_PRECISION))
    THEN Err("CalculationError")
    ELSE Ok(Div(Mul(output_amount, PRICE_PRECISION), input_amount))

\* C8: price formula.  Both price routines return
\* floor(output_amount * PRICE_PRECISION / input_amount) when input_amount > 0
\* and the product fits in u64, and fail with CalculationError when
\* input_amount = 0 or the product overflows.  (For get_raydium_price the
\* output amount is the quote's amount after fees.)
C8_PriceFormula ==
    /\ Applied("get_jupiter_price")
         => ret.result = expected_price(call.args[1], call.args[2])
    /\ (Applied("get_raydium_price") /\ ret.q.output_after_fees.some)
         => ret.result = expected_price(ret.q.output_after_fees.v, call.args[3])

\* a price that the division truncates
C8_Witness ==
    /\ Applied("get_jupiter_price")
    /\ ret.result.ok
    /\ ret.result.val # <<>>
    /\ Mod(Mul(call.args[1], PRICE_PRECISION), call.args[2]) # <<>>

QuoteFormula ==
    Applied("get_raydium_price") =>
        /\ ret.q.output_amount.some
             => ret.q.output_amount.v
                  = Sub(call.args[2],
                        Div(Mul(call.args[1], call.args[2]),
                            Add(call.args[1], call.args[3])))
        /\ ret.q.output_after_fees.some
             => ret.q.output_after_fees.v
                  = Div(Mul(ret.q.output_amount.v, Nat64(9975)), Nat64(10000))

IsScenario == Applied("get_raydium_price") /\ call.args = ScenarioQuote

\* C9 as stated: the constant-product formula, and gross_out = 19_803 for
\* reserves (1_000_000, 2_000_000) and amount_in = 10_000
C9_AsStated ==
    /\ QuoteFormula
    /\ IsScenario => ret.q.output_amount = Some(Nat64(19803))

\* C9, amended: the quoter computes gross_out = reserve_out -
\* floor(reserve_in * reserve_out / (reserve_in + amount_in)) and net_out =
\* floor(gross_out * 9975 / 10000); for reserves (1_000_000, 2_000_000) and
\* amount_in = 10_000 this gives gross_out = 19_802 and net_out = 19_752.
C9_QuoteFormula ==
    /\ QuoteFormula
    /\ IsScenario => /\ ret.q.output_amount = Some(Nat64(19802))
                     /\ ret.q.output_after_fees = Some(Nat64(19752))

C9_Witness == IsScenario /\ ret.result.ok

\* C10: constant-product invariant.  For positive reserves and a positive
\* amount_in, whenever the quote gets as far as the new reserves,
\* new_reserve_in * new_reserve_out <= reserve_in * reserve_out.
C10_ProductNeverGrows ==
    (/\ Applied("get_raydium_price")
     /\ call.args[1] # <<>>
     /\ call.args[2] # <<>>
     /\ call.args[3] # <<>>
     /\ ret.q.new_reserve_b.some)
        => Leq(Mul(ret.q.new_reserve_a.v, ret.q.new_reserve_b.v),
               Mul(call.args[1], call.args[2]))

\* a successful quote whose division left a remainder: the product shrank
C10_Witness ==
    /\ Applied("get_raydium_price")
    /\ call.args[3] # <<>>
    /\ ret.result.ok
    /\ Less(Mul(ret.q.new_reserve_a.v, ret.q.new_reserve_b.v),
            Mul(call.args[1], call.args[2]))

\* C24: the quote never drains the pool.  For reserve_in > 0 and every
\* reserve_out and amount_in for which reserve_in * reserve_out and
\* reserve_in + amount_in fit in u64, reserve_out - new_reserve_out does not
\* underflow, gross_out <= reserve_out, and net_out <= gross_out.
C24_NeverDrains ==
    (/\ Applied("get_raydium_price")
     /\ call.args[1] # <<>>
     /\ IsU64(Mul(call.args[1], call.args[2]))
     /\ IsU64(Add(call.args[1], call.args[3])))
        => /\ ret.q.output_amount.some
           /\ Leq(ret.q.output_amount.v, call.args[2])
           /\ ret.q.output_after_fees.some
                => Leq(ret.q.output_after_fees.v, ret.q.output_amount.v)

\* a quote that takes part of the pool and charges a fee on it
C24_Witness ==
    /\ Applied("get_raydium_price")
    /\ call.args[1] # <<>>
    /\ call.args[3] # <<>>
    /\ ret.q.output_after_fees.some
    /\ Less(<<>>, ret.q.output_after_fees.v)
    /\ Less(ret.q.output_after_fees.v, ret.q.output_amount.v)
    /\ Less(ret.q.output_amount.v, call.args[2])

\* C13: degenerate inputs.  Both price routines fail with CalculationError
\* when the trade amount is zero, and get_raydium_price also fails with
\* CalculationError when either reserve is zero; no price is returned.
C13_DegenerateInputs ==
    /\ (Applied("get_jupiter_price") /\ call.args[2] = <<>>)
         => ret.result = Err("CalculationError")
    /\ (/\ Applied("get_raydium_price")
        /\ (call.args[1] = <<>> \/ call.args[2] = <<>> \/ call.args[3] = <<>>))
         => ret.result = Err("CalculationError")

\* ------------------------------------------------------------------------
\* Properties of the profitability decision (checked under SpecProfit)
\* ------------------------------------------------------------------------

\* |price_a - price_b| * amount, exactly
exact_spread(price_a, price_b, amount) ==
    Mul(Sub(Max(price_a, price_b), Min(price_a, price_b)), amount)

\* loan fee + both swap fees + conversion fees + gas estimate, exactly
exact_total_cost(amount) ==
    Add(Add(Add(calculate_mango_fee(amount), calculate_dex_fees(amount)),
            calculate_jupiter_conversion_fees(amount)),
        estimate_gas_cost)

\* C4: profitability decision.  is_profitable returns true if and only if
\* |price_a - price_b| * amount is strictly greater than the total cost.
C4_ProfitableIff ==
    Applied("is_profitable") =>
        (ret.result <=> Less(exact_total_cost(call.args[3]),
                             exact_spread(call.args[1], call.args[2], call.args[3])))

\* C7: checked monetary arithmetic.  The spread product of is_profitable is
\* either the exact u64 product or the evaluation aborts with
\* CalculationError; a value wrapped modulo 2^64 is never used.
C7_CheckedArithmetic ==
    Applied("is_profitable") =>
        IF IsU64(exact_spread(call.args[1], call.args[2], call.args[3]))
        THEN /\ ret.err = "none"
             /\ ret.potential_profit
                  = exact_spread(call.args[1], call.args[2], call.args[3])
        ELSE ret.err = "CalculationError"

\* ------------------------------------------------------------------------
\* Properties of the fee functions (checked under SpecFee)
\* ------------------------------------------------------------------------

FeeApplied == returned /\ call.fn \in FeeFns \cup {"cost_sum"}

\* the largest rate a function multiplies the amount by
LargestRate(fn) ==
    IF fn = "calculate_mango_fee" THEN MANGO_FEE_BPS
    ELSE IF fn = "calculate_dex_fees" THEN JUPITER_FEE_BPS
    ELSE JUPITER_CONVERSION_BPS

NoFeeOverflow(fn, amount) == IsU64(Mul(amount, Nat64(LargestRate(fn))))

\* C11 as stated: for all u64 amounts a <= b, each fee term and the total
\* cost computed for a is at most the one computed for b
C11_AsStated ==
    (FeeApplied /\ Leq(call.args[1], call.args[2])) => Leq(ret.a, ret.b)

\* C11, amended: fee monotonicity holds for amounts a <= b as long as b times
\* the largest rate of the term (20 for the loan fee, 30 for the swap fee
\* total, 60 for the conversion fee and for the total cost) fits in u64.
C11_FeeMonotone ==
    (/\ FeeApplied
     /\ Leq(call.args[1], call.args[2])
     /\ NoFeeOverflow(call.fn, call.args[2]))
        => Leq(ret.a, ret.b)

\* a total cost that grows with the amount
C11_Witness ==
    /\ Applied("cost_sum")
    /\ Less(call.args[1], call.args[2])
    /\ NoFeeOverflow("cost_sum", call.args[2])
    /\ Less(ret.a, ret.b)

\* floor(amount * bps / 10000) when the product fits in u64, and 0 otherwise
soft_fee(amount, bps) ==
    IF IsU64(Mul(amount, Nat64(bps)))
    THEN Div(Mul(amount, Nat64(bps)), Nat64(BPS_DENOMINATOR))
    ELSE <<>>

\* C12: fee fail-soft.  Every fee function returns a u64 for every u64
\* amount; each fee term is floor(amount * bps / 10000) when amount * bps
\* fits in u64 and 0 when it overflows, and the sum of the fee terms never
\* aborts the evaluation.
C12_FeeFailSoft ==
    /\ FeeApplied => (IsU64(ret.a) /\ IsU64(ret.b) /\ ~ret.panic)
    /\ Applied("calculate_mango_fee")
         => ret.a = soft_fee(call.args[1], MANGO_FEE_BPS)
    /\ Applied("calculate_dex_fees")
         => ret.a = Add(soft_fee(call.args[1], JUPITER_FEE_BPS),
                        soft_fee(call.args[1], RAYDIUM_FEE_BPS))
    /\ Applied("calculate_jupiter_conversion_fees")
         => ret.a = soft_fee(call.args[1], JUPITER_CONVERSION_BPS)

\* the loan fee of an amount whose product with the rate overflows: 0
C12_Witness ==
    /\ Applied("calculate_mango_fee")
    /\ ~IsU64(Mul(call.args[1], Nat64(MANGO_FEE_BPS)))
    /\ ret.a = <<>>

\* ------------------------------------------------------------------------
\* Properties of the monitor (checked under SpecMonitor)
\* ------------------------------------------------------------------------

RECURSIVE InFlightUpTo(_, _)
\* executions in flight for pair p among the first n entries of the watch-list
InFlightUpTo(p, n) ==
    IF n = 0 THEN 0
    ELSE InFlightUpTo(p, n - 1) + (IF mon.token_pairs[n] = p THEN inflight[n] ELSE 0)

InFlightFor(p) == InFlightUpTo(p, Len(mon.token_pairs))

\* C6: single-flight per pair.  At most one execution is in flight for any
\* token pair, and an execution is sent for a pair only when none is in
\* flight for it (nothing is triggered, or queued, behind one in flight).
C6_SingleFlight ==
    /\ \A p \in PairIds : InFlightFor(p) <= 1
    /\ mon.at = "send" => InFlightFor(mon.token_pairs[mon.idx]) = 0

\* a pair listed twice: its second entry is executing after its first has
\* been confirmed
C6_Witness ==
    /\ mon.at = "await"
    /\ mon.idx = 2
    /\ mon.token_pairs[1] = mon.token_pairs[2]
    /\ triggers = <<(<<1, 1>>), (<<1, 2>>)>>
    /\ InFlightFor(mon.token_pairs[2]) = 1

\* the failures the monitor is handed as an Err: of the price check or its
\* simulation, of building and sending the transaction, of the execution
ErrFailures == {"error", "no_data", "send_error", "failed"}

FailedAt(t) == mon.last.result \in ErrFailures /\ mon.last.tick = t

CheckedPositive ==
    mon.last = [tick |-> mon.tick, idx |-> mon.idx, result |-> "profitable"]

\* C18: trigger only on a positive decision.  execute_arbitrage is invoked
\* for a pair only when the latest call, made for that pair in that tick,
\* is a price check that returned Ok(true).
C18_TriggerOnlyOnPositive ==
    [][triggers' # triggers
         => (CheckedPositive /\ triggers' = Append(triggers, <<mon.tick, mon.idx>>))]_vars

\* the first pair's check was negative or failed and triggered nothing; the
\* second pair's check was positive and its execution is in flight
C18_Witness ==
    /\ triggers = <<(<<1, 2>>)>>
    /\ mon.at = "await"
    /\ CheckedPositive

Malformed == mon.last.result \in {"short_data", "no_data"}

\* C23: malformed simulation result.  After a price check whose simulation
\* returned fewer than 16 bytes, or no return data, the monitor has not
\* crashed: it is at a later pair, at the sleep that ends the tick or in a
\* later tick, and it has triggered no execution for that pair in that tick.
C23_MalformedResult ==
    Malformed
        => /\ mon.at \in {"check", "sleep"}
           /\ \/ mon.tick > mon.last.tick
              \/ mon.at = "sleep"
              \/ mon.idx > mon.last.idx
           /\ \A i \in DOMAIN triggers : triggers[i] # <<mon.last.tick, mon.last.idx>>

\* ------------------------------------------------------------------------
\* Properties of the amounts the monitor sends (checked under SpecNotional)
\* ------------------------------------------------------------------------

\* C21: same notional in detection and execution.  The amount carried by the
\* price-check instruction equals the amount carried by the execution
\* instruction, and both are the pair's loan_amount.
C21_SameNotional ==
    returned
        => /\ ret.check_data = ret.execute_data
           /\ ret.check_data = instruction_data(0, ret.pair.loan_amount)
           /\ ret.execute_data = instruction_data(0, ret.pair.loan_amount)

\* ------------------------------------------------------------------------
\* Properties of the two decisions (checked under SpecAgree)
\* ------------------------------------------------------------------------

\* C22: the monitor and the on-chain evaluator agree.  For the same prices
\* and the same amount, the decision of check_arbitrage_opportunity is
\* positive if and only if is_profitable returns true.
C22_DecisionsAgree ==
    returned => (ret.monitor = "yes" <=> ret.onchain = "yes")

====
